---- MODULE Spec2Model ----
(***************************************************************************)
(* Value-representation core of starlark-rust:                             *)
(*   starlark/src/values/layout/typed/mod.rs   ValueTyped / FrozenValueTyped*)
(*   starlark/src/values/types/bigint/convert.rs   u64 / i64 -> Value       *)
(*                                                                         *)
(* A tagged word is modelled as [hi, tag]: the three low tag bits and the   *)
(* remaining upper bits, so that the numeric word is hi * 8 + tag.  A       *)
(* native 64-bit integer is modelled by its bit pattern, four 16-bit limbs, *)
(* least significant first.  An arbitrary-precision integer is a sign and a *)
(* magnitude of four limbs.                                                *)
(***************************************************************************)
EXTENDS Integers, Sequences, FiniteSets, TLC

VARIABLES heap, fheap, ws, last

vars == <<heap, fheap, ws, last>>

\* Total number of objects the two heaps may hold together.
MaxObjs == 2

(***************************************************************************)
(* Tagged words (values/layout/pointer.rs): the encoding of sections 3 and  *)
(* 4.1 of the specification.                                               *)
(***************************************************************************)
TAG_INT == 2
TAG_STR == 4
TAG_UNFROZEN == 1
HeaderSize == 8

I32_MAX == 2147483647
I32_MIN == (-2147483647) - 1

Limb == 65536

\* Header address of slot i of the mutable heap and of the frozen heap: two
\* disjoint arenas of 8-aligned slots.
HeapAddr(i) == 32 * i

FrozenAddr(j) == 32 * j + 16

\* Value::new_int / FrozenValue::new_int: the integer in the upper bits.
new_int(x) == [hi |-> x, tag |-> TAG_INT]

\* Pointer::new_unfrozen: a pointer into the mutable heap.
Value_new_ptr(addr, isStr) ==
  [hi |-> addr \div 8, tag |-> TAG_UNFROZEN + (IF isStr THEN TAG_STR ELSE 0)]

\* FrozenValue::new_ptr: a pointer into the frozen heap, string sub-tag only.
FrozenValue_new_ptr(addr, isStr) ==
  [hi |-> addr \div 8, tag |-> IF isStr THEN TAG_STR ELSE 0]

\* FrozenValue::to_value: the same word seen as a Value.
FrozenValue_to_value(fv) == fv

is_int(w) == (w.tag \div TAG_INT) % 2 = 1

is_unfrozen(w) == ~is_int(w) /\ w.tag % 2 = TAG_UNFROZEN

\* The numeric machine word of a pointer.
PtrBits(w) == w.hi * 8 + w.tag

\* (p as isize >> 3) as i32
unpack_int_unchecked(w) == w.hi

\* Pointer bits with the tag bits masked off: the header address.
unpack_ptr_no_int_unchecked(w) == PtrBits(w) - (PtrBits(w) % 8)

\* Frozen pointer known to be neither int nor str: the word as it is.
unpack_ptr_no_int_no_str_unchecked(w) == PtrBits(w)

\* AValueRepr: the payload follows the header.
payload_ptr(headerAddr) == headerAddr + HeaderSize

Value_ptr_eq(v1, v2) == v1 = v2

(***************************************************************************)
(* Heaps: sequences of objects [ty, val]; ty is the type identity the       *)
(* header records.                                                         *)
(***************************************************************************)
NoHeader == [ty |-> "invalid", val |-> <<>>]

HeaderAtIn(h, fh, addr) ==
  IF \E i \in 1..Len(h) : HeapAddr(i) = addr
    THEN h[CHOOSE i \in 1..Len(h) : HeapAddr(i) = addr]
    ELSE IF \E j \in 1..Len(fh) : FrozenAddr(j) = addr
      THEN fh[CHOOSE j \in 1..Len(fh) : FrozenAddr(j) = addr]
      ELSE NoHeader

HeaderAt(addr) == HeaderAtIn(heap, fheap, addr)

\* The object whose payload lies at addr.
PayloadAt(addr) == HeaderAt(addr - HeaderSize)

\* Runtime type of a value: an immediate integer is the built-in integer type.
TypeOfIn(h, fh, v) ==
  IF is_int(v) THEN "int" ELSE HeaderAtIn(h, fh, unpack_ptr_no_int_unchecked(v)).ty

TypeOf(v) == TypeOfIn(heap, fheap, v)

\* Value::downcast_ref::<T>().is_some()
downcast_ok(T, v) == TypeOf(v) = T

(***************************************************************************)
(* convert.rs: native integers into values.                                *)
(***************************************************************************)
\* i32::try_from(u64).is_ok()
TryFromU64Ok(b) == b[3] = 0 /\ b[4] = 0 /\ b[2] < 32768

\* Faulty variant: the unsigned range test applied to an i64.
TryFromI64Ok_unsigned(b) == b[3] = 0 /\ b[4] = 0 /\ b[2] < 32768

\* i32::try_from(i64).is_ok(): the upper 33 bits are a sign extension.
TryFromI64Ok(b) ==
  \/ b[3] = 0 /\ b[4] = 0 /\ b[2] < 32768
  \/ b[3] = Limb - 1 /\ b[4] = Limb - 1 /\ b[2] >= 32768

\* The low 32 bits as an i32.
Low32(b) == IF b[2] < 32768 THEN b[2] * Limb + b[1] ELSE (b[2] - Limb) * Limb + b[1]

\* Wrapping negation of a 64-bit pattern (!x + 1).
NegBits(b) ==
  LET s1 == (Limb - 1 - b[1]) + 1
      s2 == (Limb - 1 - b[2]) + (s1 \div Limb)
      s3 == (Limb - 1 - b[3]) + (s2 \div Limb)
      s4 == (Limb - 1 - b[4]) + (s3 \div Limb)
  IN  <<s1 % Limb, s2 % Limb, s3 % Limb, s4 % Limb>>

\* BigInt::from(u64)
BigIntFromU64(b) == [neg |-> FALSE, mag |-> b]

\* BigInt::from(i64)
BigIntFromI64(b) ==
  IF b[4] >= 32768 THEN [neg |-> TRUE, mag |-> NegBits(b)] ELSE [neg |-> FALSE, mag |-> b]

BigIntObj(big) == [ty |-> "bigint", val |-> big]

\* StarlarkBigInt::alloc_bigint: one object on the mutable heap.
alloc_bigint(big, h) ==
  [heap |-> Append(h, BigIntObj(big)),
   out |-> Value_new_ptr(HeapAddr(Len(h) + 1), FALSE)]

\* StarlarkBigInt::alloc_bigint_frozen: one object on the frozen heap.
alloc_bigint_frozen(big, fh) ==
  [heap |-> Append(fh, BigIntObj(big)),
   out |-> FrozenValue_new_ptr(FrozenAddr(Len(fh) + 1), FALSE)]

\* Faulty variant: a truncating cast (self as i32) in place of i32::try_from.
u64_alloc_value_truncating(b, h) == [heap |-> h, out |-> new_int(Low32(b))]

u64_alloc_value(b, h) ==
  IF TryFromU64Ok(b) THEN [heap |-> h, out |-> new_int(Low32(b))]
  ELSE alloc_bigint(BigIntFromU64(b), h)

u64_alloc_frozen_value(b, fh) ==
  IF TryFromU64Ok(b) THEN [heap |-> fh, out |-> new_int(Low32(b))]
  ELSE alloc_bigint_frozen(BigIntFromU64(b), fh)

i64_alloc_value(b, h) ==
  IF TryFromI64Ok(b) THEN [heap |-> h, out |-> new_int(Low32(b))]
  ELSE alloc_bigint(BigIntFromI64(b), h)

i64_alloc_frozen_value(b, fh) ==
  IF TryFromI64Ok(b) THEN [heap |-> fh, out |-> new_int(Low32(b))]
  ELSE alloc_bigint_frozen(BigIntFromI64(b), fh)

(***************************************************************************)
(* The native integers the conversions are applied to.  Each entry gives    *)
(* the bit pattern handed to the code and, independently, the mathematical  *)
(* value: n when it lies in [i32::MIN, i32::MAX], and sign and magnitude.   *)
(***************************************************************************)
In(ty, bits, n) ==
  [ty |-> ty, bits |-> bits, inRange |-> TRUE, n |-> n,
   neg |-> n < 0, mag |-> <<>>]

Out(ty, bits, neg, mag) ==
  [ty |-> ty, bits |-> bits, inRange |-> FALSE, n |-> 0, neg |-> neg, mag |-> mag]

AllOnes == <<65535, 65535, 65535, 65535>>

NativeInputs ==
  { In("u64", <<0, 0, 0, 0>>, 0),
    In("u64", <<17, 0, 0, 0>>, 17),
    In("u64", <<65535, 32767, 0, 0>>, I32_MAX),
    Out("u64", <<0, 32768, 0, 0>>, FALSE, <<0, 32768, 0, 0>>),
    Out("u64", <<65535, 65535, 0, 0>>, FALSE, <<65535, 65535, 0, 0>>),
    Out("u64", <<61952, 10757, 1, 0>>, FALSE, <<61952, 10757, 1, 0>>),
    Out("u64", AllOnes, FALSE, AllOnes),
    In("i64", <<17, 0, 0, 0>>, 17),
    In("i64", AllOnes, -1),
    In("i64", <<65535, 32767, 0, 0>>, I32_MAX),
    In("i64", <<0, 32768, 65535, 65535>>, I32_MIN),
    Out("i64", <<0, 32768, 0, 0>>, FALSE, <<0, 32768, 0, 0>>),
    Out("i64", <<65535, 32767, 65535, 65535>>, TRUE, <<1, 32768, 0, 0>>),
    Out("i64", <<61952, 10757, 1, 0>>, FALSE, <<61952, 10757, 1, 0>>),
    Out("i64", <<65535, 65535, 65535, 32767>>, FALSE, <<65535, 65535, 65535, 32767>>),
    Out("i64", <<0, 0, 0, 32768>>, TRUE, <<0, 0, 0, 32768>>) }

None == [T |-> "None"]

Regs == {"a", "b"}

NoWrappers == [r \in Regs |-> None]

Room == Len(heap) + Len(fheap) < MaxObjs

InitConvert ==
  /\ heap = <<>>
  /\ fheap = <<>>
  /\ ws = NoWrappers
  /\ last = [op |-> "init"]

AllocValueU64(x) ==
  /\ x.ty = "u64"
  /\ LET r == u64_alloc_value(x.bits, heap) IN
       /\ Len(r.heap) + Len(fheap) <= MaxObjs
       /\ heap' = r.heap
       /\ last' = [op |-> "alloc_value", x |-> x, out |-> r.out]
  /\ UNCHANGED <<fheap, ws>>

AllocFrozenValueU64(x) ==
  /\ x.ty = "u64"
  /\ LET r == u64_alloc_frozen_value(x.bits, fheap) IN
       /\ Len(heap) + Len(r.heap) <= MaxObjs
       /\ fheap' = r.heap
       /\ last' = [op |-> "alloc_frozen_value", x |-> x, out |-> r.out]
  /\ UNCHANGED <<heap, ws>>

AllocValueI64(x) ==
  /\ x.ty = "i64"
  /\ LET r == i64_alloc_value(x.bits, heap) IN
       /\ Len(r.heap) + Len(fheap) <= MaxObjs
       /\ heap' = r.heap
       /\ last' = [op |-> "alloc_value", x |-> x, out |-> r.out]
  /\ UNCHANGED <<fheap, ws>>

AllocFrozenValueI64(x) ==
  /\ x.ty = "i64"
  /\ LET r == i64_alloc_frozen_value(x.bits, fheap) IN
       /\ Len(heap) + Len(r.heap) <= MaxObjs
       /\ fheap' = r.heap
       /\ last' = [op |-> "alloc_frozen_value", x |-> x, out |-> r.out]
  /\ UNCHANGED <<heap, ws>>

NextConvert ==
  \/ \E x \in NativeInputs : AllocValueU64(x)
  \/ \E x \in NativeInputs : AllocFrozenValueU64(x)
  \/ \E x \in NativeInputs : AllocValueI64(x)
  \/ \E x \in NativeInputs : AllocFrozenValueI64(x)

SpecConvert == InitConvert /\ [][NextConvert]_vars

AllocOps == {"alloc_value", "alloc_frozen_value"}

\* C3: a native integer in [i32::MIN, i32::MAX], given as i64 or u64, becomes
\* an immediate value that reads back exactly that integer, on either heap
\* variant, and neither heap changes.
C3_ImmediateNoAlloc ==
  [][ (last'.op \in AllocOps /\ last'.x.inRange) =>
        /\ is_int(last'.out)
        /\ unpack_int_unchecked(last'.out) = last'.x.n
        /\ heap' = heap
        /\ fheap' = fheap ]_vars

C3_Witness ==
  /\ last.op \in AllocOps
  /\ last.x.inRange
  /\ last.x.n = I32_MIN
  /\ Len(heap) + Len(fheap) > 0

\* C4: a native integer outside [i32::MIN, i32::MAX] allocates exactly one
\* big-integer object, on the mutable heap for alloc_value and on the frozen
\* heap for alloc_frozen_value; the result is a pointer to it, never an
\* immediate, and the object holds exactly the integer's sign and magnitude.
C4_BigIntExact ==
  [][ (last'.op \in AllocOps /\ ~last'.x.inRange) =>
        LET obj == BigIntObj([neg |-> last'.x.neg, mag |-> last'.x.mag])
            out == last'.out
        IN  /\ ~is_int(out)
            /\ last'.op = "alloc_value" =>
                  /\ heap' = Append(heap, obj)
                  /\ fheap' = fheap
                  /\ is_unfrozen(out)
                  /\ unpack_ptr_no_int_unchecked(out) = HeapAddr(Len(heap'))
            /\ last'.op = "alloc_frozen_value" =>
                  /\ fheap' = Append(fheap, obj)
                  /\ heap' = heap
                  /\ ~is_unfrozen(out)
                  /\ unpack_ptr_no_int_unchecked(out) = FrozenAddr(Len(fheap')) ]_vars

C4_Witness ==
  /\ last.op = "alloc_frozen_value"
  /\ last.x.ty = "i64"
  /\ last.x.neg
  /\ ~last.x.inRange
  /\ Len(fheap) = 2
  /\ HeaderAt(unpack_ptr_no_int_unchecked(last.out)).val.neg


(***************************************************************************)
(* typed/mod.rs: ValueTyped<T> and FrozenValueTyped<T>.  A wrapper is       *)
(* [frozen, T, v]: which of the two structs it is, the type parameter, and  *)
(* the handle it contains.                                                 *)
(***************************************************************************)
Types == {"int", "str", "bigint"}

\* Faulty variant: the downcast check left out of new.
ValueTyped_new_nocheck(T, v) == [frozen |-> FALSE, T |-> T, v |-> v]

ValueTyped_new(T, v) ==
  IF downcast_ok(T, v) THEN [frozen |-> FALSE, T |-> T, v |-> v] ELSE None

\* The wrapper new_unchecked returns; its debug assertion is
\* new_unchecked_assert.
ValueTyped_new_unchecked(T, v) == [frozen |-> FALSE, T |-> T, v |-> v]

new_unchecked_assert(T, v) == downcast_ok(T, v)

\* Value::new_repr on the object in slot i of the mutable heap.
ValueTyped_new_repr(i) ==
  [frozen |-> FALSE, T |-> heap[i].ty,
   v |-> Value_new_ptr(HeapAddr(i), heap[i].ty = "str")]

ValueTyped_to_value(w) == w.v

ValueTyped_as_ref(w) ==
  IF w.T = "int"
    THEN [imm |-> TRUE, int |-> unpack_int_unchecked(w.v)]
    ELSE [imm |-> FALSE, addr |-> payload_ptr(unpack_ptr_no_int_unchecked(w.v))]

\* Faulty variant: only the tag is inspected; every pointer passes for a non-integer T.
FrozenValueTyped_new_tagonly(T, fv) ==
  IF is_int(fv) = (T = "int") THEN [frozen |-> TRUE, T |-> T, v |-> fv] ELSE None

FrozenValueTyped_new(T, fv) ==
  IF downcast_ok(T, fv) THEN [frozen |-> TRUE, T |-> T, v |-> fv] ELSE None

\* new_repr on the object in slot j of the frozen heap; A::is_str() is the
\* static fact that the payload type is the string type.
FrozenValueTyped_new_repr(j) ==
  [frozen |-> TRUE, T |-> fheap[j].ty,
   v |-> FrozenValue_new_ptr(FrozenAddr(j), fheap[j].ty = "str")]

FrozenValueTyped_to_frozen_value(w) == w.v

FrozenValueTyped_to_value(w) == FrozenValue_to_value(w.v)

FrozenValueTyped_to_value_typed(w) ==
  ValueTyped_new_unchecked(w.T, FrozenValue_to_value(w.v))

\* Faulty variant: the string branch left out, so a string pointer is not untagged.
FrozenValueTyped_as_ref_nostr(w) ==
  IF w.T = "int"
    THEN [imm |-> TRUE, int |-> unpack_int_unchecked(w.v)]
    ELSE [imm |-> FALSE,
          addr |-> payload_ptr(unpack_ptr_no_int_no_str_unchecked(w.v))]

FrozenValueTyped_as_ref(w) ==
  IF w.T = "int"
    THEN [imm |-> TRUE, int |-> unpack_int_unchecked(w.v)]
    ELSE IF w.T = "str"
      THEN [imm |-> FALSE, addr |-> payload_ptr(unpack_ptr_no_int_unchecked(w.v))]
      ELSE [imm |-> FALSE,
            addr |-> payload_ptr(unpack_ptr_no_int_no_str_unchecked(w.v))]

\* Faulty variant: freezing copies the object into the freezer's heap again.
FrozenValueTyped_freeze_copy(w, freezer) ==
  IF is_int(w.v) THEN [ok |-> TRUE, out |-> w, freezer |-> freezer]
  ELSE [ok |-> TRUE,
        out |-> [w EXCEPT !.v = FrozenValue_new_ptr(FrozenAddr(Len(freezer) + 1),
                                                    w.T = "str")],
        freezer |-> Append(freezer, HeaderAt(unpack_ptr_no_int_unchecked(w.v)))]

\* Freeze for FrozenValueTyped: Ok(self); the freezer (the frozen heap it
\* allocates into) is not used.
FrozenValueTyped_freeze(w, freezer) ==
  [ok |-> TRUE, out |-> w, freezer |-> freezer]

\* PointerI32::to_int on the reference as_ref returns.
PointerI32_to_int(ref) == ref.int

\* StarlarkStr::as_str: the bytes stored at the referenced payload.
StarlarkStr_as_str(ref) == PayloadAt(ref.addr).val

\* str comparison: byte by byte, then by length.
RECURSIVE CmpBytes(_, _)
CmpBytes(s, t) ==
  IF s = <<>> /\ t = <<>> THEN "Equal"
  ELSE IF s = <<>> THEN "Less"
  ELSE IF t = <<>> THEN "Greater"
  ELSE IF Head(s) < Head(t) THEN "Less"
  ELSE IF Head(s) > Head(t) THEN "Greater"
  ELSE CmpBytes(Tail(s), Tail(t))

StarlarkStr_eq(r1, r2) == StarlarkStr_as_str(r1) = StarlarkStr_as_str(r2)

StarlarkStr_cmp(r1, r2) == CmpBytes(StarlarkStr_as_str(r1), StarlarkStr_as_str(r2))

\* What hashing a str writes to the hasher: its bytes and the 0xff terminator.
StarlarkStr_hash(ref) == Append(StarlarkStr_as_str(ref), 255)

\* Faulty variant: pointer identity only, without the content fallback.
ValueTyped_eq_ptronly(a, b) ==
  [result |-> Value_ptr_eq(ValueTyped_to_value(a), ValueTyped_to_value(b)),
   content |-> FALSE]

\* PartialEq for ValueTyped<StarlarkStr>: result, and whether the right
\* operand of || (the content comparison) was evaluated.
ValueTyped_eq(a, b) ==
  LET p == Value_ptr_eq(ValueTyped_to_value(a), ValueTyped_to_value(b))
  IN  [result |-> p \/ StarlarkStr_eq(ValueTyped_as_ref(a), ValueTyped_as_ref(b)),
       content |-> ~p]

FrozenValueTyped_eq(a, b) ==
  ValueTyped_eq(FrozenValueTyped_to_value_typed(a), FrozenValueTyped_to_value_typed(b))

FrozenValueTyped_eq_ValueTyped(a, b) ==
  ValueTyped_eq(FrozenValueTyped_to_value_typed(a), b)

ValueTyped_eq_FrozenValueTyped(a, b) ==
  ValueTyped_eq(a, FrozenValueTyped_to_value_typed(b))

\* Faulty variant: the handle is hashed instead of the string.
ValueTyped_hash_ptr(w) == <<PtrBits(w.v)>>

ValueTyped_hash(w) == StarlarkStr_hash(ValueTyped_as_ref(w))

FrozenValueTyped_hash(w) == StarlarkStr_hash(FrozenValueTyped_as_ref(w))

\* Faulty variant: the handles are ordered instead of the strings.
ValueTyped_cmp_ptr(a, b) ==
  IF PtrBits(a.v) < PtrBits(b.v) THEN "Less"
  ELSE IF PtrBits(a.v) > PtrBits(b.v) THEN "Greater"
  ELSE "Equal"

ValueTyped_cmp(a, b) == StarlarkStr_cmp(ValueTyped_as_ref(a), ValueTyped_as_ref(b))

ValueTyped_partial_cmp(a, b) ==
  [some |-> TRUE, ord |-> StarlarkStr_cmp(ValueTyped_as_ref(a), ValueTyped_as_ref(b))]

FrozenValueTyped_cmp(a, b) ==
  StarlarkStr_cmp(FrozenValueTyped_as_ref(a), FrozenValueTyped_as_ref(b))

FrozenValueTyped_partial_cmp(a, b) ==
  [some |-> TRUE,
   ord |-> StarlarkStr_cmp(FrozenValueTyped_as_ref(a), FrozenValueTyped_as_ref(b))]

(***************************************************************************)
(* The tracer of a collection pass: live objects are copied into a new      *)
(* arena in the order they are first reached; ts is [to, fwd, calls, rets]: *)
(* the new arena, the forwarding table, the handles handed to the tracer    *)
(* and the handles it wrote back.                                          *)
(***************************************************************************)
TracerInit ==
  [to |-> <<>>, fwd |-> [i \in 1..Len(heap) |-> 0], calls |-> <<>>, rets |-> <<>>]

SlotOf(addr) == CHOOSE i \in 1..Len(heap) : HeapAddr(i) = addr

Tracer_trace(v, ts) ==
  IF ~is_unfrozen(v)
    THEN [v |-> v,
          ts |-> [ts EXCEPT !.calls = Append(@, v), !.rets = Append(@, v)]]
    ELSE
      LET s == SlotOf(unpack_ptr_no_int_unchecked(v))
          n == IF ts.fwd[s] # 0 THEN ts.fwd[s] ELSE Len(ts.to) + 1
          nv == Value_new_ptr(HeapAddr(n), heap[s].ty = "str")
      IN  [v |-> nv,
           ts |-> [to |-> IF ts.fwd[s] # 0 THEN ts.to ELSE Append(ts.to, heap[s]),
                   fwd |-> [ts.fwd EXCEPT ![s] = n],
                   calls |-> Append(ts.calls, v),
                   rets |-> Append(ts.rets, nv)]]

\* Faulty variant: a copy of the handle is traced and the relocated handle is dropped.
ValueTyped_trace_copy(w, ts) ==
  LET t == Tracer_trace(w.v, ts)
  IN  [w |-> w, ts |-> t.ts, ok |-> TRUE]

\* Trace for ValueTyped: tracer.trace(&mut self.0), then the debug assertion
\* that the handle still downcasts to T (ok).
ValueTyped_trace(w, ts) ==
  LET t == Tracer_trace(w.v, ts)
  IN  [w |-> [w EXCEPT !.v = t.v],
       ts |-> t.ts,
       ok |-> TypeOfIn(t.ts.to, fheap, t.v) = w.T]

\* Trace for FrozenValueTyped: empty body.
FrozenValueTyped_trace(w, ts) == [w |-> w, ts |-> ts, ok |-> TRUE]

TraceWrapper(w, ts) ==
  IF w = None THEN [w |-> w, ts |-> ts, ok |-> TRUE]
  ELSE IF w.frozen THEN FrozenValueTyped_trace(w, ts)
  ELSE ValueTyped_trace(w, ts)

(***************************************************************************)
(* The state machine of the typed wrappers: two heaps of objects, two       *)
(* wrapper registers, and the record of the last operation.                *)
(***************************************************************************)
StrPool == {<<>>, <<97>>, <<97, 98>>, <<98>>}

IntPool == {17, -1}

FiveBillion == [neg |-> FALSE, mag |-> <<61952, 10757, 1, 0>>]

StrObjs == {[ty |-> "str", val |-> s] : s \in StrPool}

ObjPool == {[ty |-> "str", val |-> <<97>>], BigIntObj(FiveBillion)}

FrozenValues ==
  {new_int(i) : i \in IntPool}
    \cup {FrozenValue_new_ptr(FrozenAddr(j), fheap[j].ty = "str") : j \in 1..Len(fheap)}

Values ==
  {FrozenValue_to_value(fv) : fv \in FrozenValues}
    \cup {Value_new_ptr(HeapAddr(i), heap[i].ty = "str") : i \in 1..Len(heap)}

Init ==
  /\ heap = <<>>
  /\ fheap = <<>>
  /\ ws = NoWrappers
  /\ last = [op |-> "init"]

\* Heap::alloc_* / FrozenHeap::alloc_*: the allocator stamps the header.
Alloc(obj) ==
  /\ Room
  /\ heap' = Append(heap, obj)
  /\ last' = [op |-> "alloc"]
  /\ UNCHANGED <<fheap, ws>>

AllocFrozen(obj) ==
  /\ Room
  /\ fheap' = Append(fheap, obj)
  /\ last' = [op |-> "alloc"]
  /\ UNCHANGED <<heap, ws>>

Put(r, w) == IF w = None THEN ws ELSE [ws EXCEPT ![r] = w]

New(r, T, v) ==
  /\ v \in Values
  /\ LET w == ValueTyped_new(T, v) IN
       /\ ws' = Put(r, w)
       /\ last' = [op |-> "new", T |-> T, v |-> v, out |-> w]
  /\ UNCHANGED <<heap, fheap>>

FrozenNew(r, T, fv) ==
  /\ fv \in FrozenValues
  /\ LET w == FrozenValueTyped_new(T, fv) IN
       /\ ws' = Put(r, w)
       /\ last' = [op |-> "frozen_new", T |-> T, v |-> fv, out |-> w]
  /\ UNCHANGED <<heap, fheap>>

NewRepr(r, i) ==
  /\ i \in 1..Len(heap)
  /\ ws' = [ws EXCEPT ![r] = ValueTyped_new_repr(i)]
  /\ last' = [op |-> "new_repr", r |-> r]
  /\ UNCHANGED <<heap, fheap>>

FrozenNewRepr(r, j) ==
  /\ j \in 1..Len(fheap)
  /\ ws' = [ws EXCEPT ![r] = FrozenValueTyped_new_repr(j)]
  /\ last' = [op |-> "frozen_new_repr", r |-> r]
  /\ UNCHANGED <<heap, fheap>>

\* Copy / Clone / Dupe.
Copy(r, r2) ==
  /\ ws[r] # None
  /\ r2 # r
  /\ ws' = [ws EXCEPT ![r2] = ws[r]]
  /\ last' = [op |-> "copy", r |-> r]
  /\ UNCHANGED <<heap, fheap>>

ToValueTyped(r, r2) ==
  /\ ws[r] # None
  /\ ws[r].frozen
  /\ ws' = [ws EXCEPT ![r2] = FrozenValueTyped_to_value_typed(ws[r])]
  /\ last' = [op |-> "to_value_typed", r |-> r2,
              ok |-> new_unchecked_assert(ws[r].T, FrozenValue_to_value(ws[r].v))]
  /\ UNCHANGED <<heap, fheap>>

ToValue(r) ==
  /\ ws[r] # None
  /\ last' = [op |-> "to_value", r |-> r,
              out |-> IF ws[r].frozen THEN FrozenValueTyped_to_value(ws[r])
                      ELSE ValueTyped_to_value(ws[r])]
  /\ UNCHANGED <<heap, fheap, ws>>

ToFrozenValue(r) ==
  /\ ws[r] # None
  /\ ws[r].frozen
  /\ last' = [op |-> "to_frozen_value", r |-> r,
              out |-> FrozenValueTyped_to_frozen_value(ws[r])]
  /\ UNCHANGED <<heap, fheap, ws>>

AsRef(r) ==
  /\ ws[r] # None
  /\ last' = [op |-> "as_ref", r |-> r,
              out |-> IF ws[r].frozen THEN FrozenValueTyped_as_ref(ws[r])
                      ELSE ValueTyped_as_ref(ws[r])]
  /\ UNCHANGED <<heap, fheap, ws>>

IsStr(r) == ws[r] # None /\ ws[r].T = "str"

EqAny(a, b) ==
  IF a.frozen /\ b.frozen THEN FrozenValueTyped_eq(a, b)
  ELSE IF a.frozen THEN FrozenValueTyped_eq_ValueTyped(a, b)
  ELSE IF b.frozen THEN ValueTyped_eq_FrozenValueTyped(a, b)
  ELSE ValueTyped_eq(a, b)

Eq(ra, rb) ==
  /\ IsStr(ra)
  /\ IsStr(rb)
  /\ LET e == EqAny(ws[ra], ws[rb]) IN
       last' = [op |-> "eq", a |-> ra, b |-> rb,
                out |-> e.result, content |-> e.content]
  /\ UNCHANGED <<heap, fheap, ws>>

Cmp(ra, rb) ==
  /\ IsStr(ra)
  /\ IsStr(rb)
  /\ ws[ra].frozen = ws[rb].frozen
  /\ last' = [op |-> "cmp", a |-> ra, b |-> rb,
              out |-> IF ws[ra].frozen THEN FrozenValueTyped_cmp(ws[ra], ws[rb])
                      ELSE ValueTyped_cmp(ws[ra], ws[rb])]
  /\ UNCHANGED <<heap, fheap, ws>>

PartialCmp(ra, rb) ==
  /\ IsStr(ra)
  /\ IsStr(rb)
  /\ ws[ra].frozen = ws[rb].frozen
  /\ last' = [op |-> "partial_cmp", a |-> ra, b |-> rb,
              out |-> IF ws[ra].frozen
                        THEN FrozenValueTyped_partial_cmp(ws[ra], ws[rb])
                        ELSE ValueTyped_partial_cmp(ws[ra], ws[rb])]
  /\ UNCHANGED <<heap, fheap, ws>>

Hash(r) ==
  /\ IsStr(r)
  /\ last' = [op |-> "hash", r |-> r,
              out |-> IF ws[r].frozen THEN FrozenValueTyped_hash(ws[r])
                      ELSE ValueTyped_hash(ws[r])]
  /\ UNCHANGED <<heap, fheap, ws>>

Freeze(r) ==
  /\ ws[r] # None
  /\ ws[r].frozen
  /\ LET f == FrozenValueTyped_freeze(ws[r], fheap) IN
       /\ ws' = [ws EXCEPT ![r] = f.out]
       /\ fheap' = f.freezer
       /\ last' = [op |-> "freeze", r |-> r, ok |-> f.ok]
  /\ UNCHANGED heap

\* A collection pause: every wrapper is traced, first r1 and then r2, and the
\* new arena replaces the mutable heap.
Collect(r1, r2) ==
  /\ r1 # r2
  /\ LET t1 == TraceWrapper(ws[r1], TracerInit)
         t2 == TraceWrapper(ws[r2], t1.ts)
     IN  /\ heap' = t2.ts.to
         /\ ws' = [r \in Regs |-> IF r = r1 THEN t1.w ELSE t2.w]
         /\ last' = [op |-> "collect", order |-> <<r1, r2>>,
                     calls |-> t2.ts.calls, rets |-> t2.ts.rets,
                     ok |-> t1.ok /\ t2.ok]
  /\ UNCHANGED fheap

Next ==
  \/ \E obj \in ObjPool : Alloc(obj)
  \/ \E obj \in ObjPool : AllocFrozen(obj)
  \/ \E r \in Regs, T \in Types, v \in Values : New(r, T, v)
  \/ \E r \in Regs, T \in Types, fv \in FrozenValues : FrozenNew(r, T, fv)
  \/ \E r \in Regs, i \in 1..Len(heap) : NewRepr(r, i)
  \/ \E r \in Regs, j \in 1..Len(fheap) : FrozenNewRepr(r, j)
  \/ \E r, r2 \in Regs : Copy(r, r2)
  \/ \E r, r2 \in Regs : ToValueTyped(r, r2)
  \/ \E r \in Regs : ToValue(r)
  \/ \E r \in Regs : ToFrozenValue(r)
  \/ \E r \in Regs : AsRef(r)
  \/ \E r \in Regs : Freeze(r)
  \/ \E r1, r2 \in Regs : Collect(r1, r2)

Spec == Init /\ [][Next]_vars

\* The string specialisations (PartialEq, Hash, PartialOrd, Ord) over heaps of
\* strings and wrappers of type StarlarkStr.
NextStr ==
  \/ \E obj \in StrObjs : Alloc(obj)
  \/ \E obj \in StrObjs : AllocFrozen(obj)
  \/ \E r \in Regs, v \in Values : New(r, "str", v)
  \/ \E r \in Regs, fv \in FrozenValues : FrozenNew(r, "str", fv)
  \/ \E r, r2 \in Regs : Copy(r, r2)
  \/ \E r, r2 \in Regs : ToValueTyped(r, r2)
  \/ \E ra, rb \in Regs : Eq(ra, rb)
  \/ \E ra, rb \in Regs : Cmp(ra, rb)
  \/ \E ra, rb \in Regs : PartialCmp(ra, rb)
  \/ \E r \in Regs : Hash(r)
  \/ \E r1, r2 \in Regs : Collect(r1, r2)

SpecStr == Init /\ [][NextStr]_vars


(***************************************************************************)
(* Properties of the typed wrappers.                                       *)
(***************************************************************************)
\* The header address a pointer handle refers to, and the object there.
AddrOf(v) == unpack_ptr_no_int_unchecked(v)

ObjectOf(v) == HeaderAt(AddrOf(v))

\* C1: every wrapper obtained through new (and through to_value_typed,
\* freeze, trace or copy from such a wrapper) contains a handle whose runtime
\* type is the wrapper's T, an immediate integer counting as the integer
\* type; the handles that to_value and to_frozen_value return have that type
\* too, and the debug assertions of to_value_typed and trace hold.
C1_TypedInvariant ==
  /\ \A r \in Regs : ws[r] # None => TypeOf(ws[r].v) = ws[r].T
  /\ last.op \in {"to_value", "to_frozen_value"} => TypeOf(last.out) = ws[last.r].T
  /\ last.op \in {"to_value_typed", "collect"} => last.ok

C1_Witness ==
  /\ last.op = "collect"
  /\ last.calls # last.rets
  /\ \A r \in Regs : ws[r] # None
  /\ ws["a"].T # ws["b"].T
  /\ \E r \in Regs : ws[r].frozen

NewOps == {"new", "frozen_new"}

\* C2: new returns a wrapper exactly when the runtime type of the value is T
\* (an immediate integer being of the integer type); the wrapper holds the
\* very handle it was given; new on the immediate 17 with T = integer reads
\* back 17; and neither heap is changed by the call.
C2_NewChecked ==
  [][ last'.op \in NewOps =>
        LET T == last'.T
            v == last'.v
            out == last'.out
        IN  /\ (out # None) <=> (TypeOfIn(heap', fheap', v) = T)
            /\ out # None =>
                 /\ out.v = v
                 /\ out.T = T
                 /\ out.frozen = (last'.op = "frozen_new")
                 /\ \E r \in Regs : ws'[r] = out
            /\ out = None => ws' = ws
            /\ \A n \in IntPool : (v = new_int(n) /\ T = "int") =>
                 /\ out # None
                 /\ PointerI32_to_int(IF out.frozen THEN FrozenValueTyped_as_ref(out)
                                      ELSE ValueTyped_as_ref(out)) = n
            /\ (~is_int(v) /\ T = "int") => out = None
            /\ heap' = heap
            /\ fheap' = fheap ]_vars

C2_Witness ==
  /\ last.op = "frozen_new"
  /\ last.T = "int"
  /\ last.v = new_int(17)
  /\ last.out # None
  /\ PointerI32_to_int(FrozenValueTyped_as_ref(last.out)) = 17
  /\ \E j \in 1..Len(fheap) : fheap[j].ty = "str"

\* C7: freezing a frozen wrapper succeeds and returns the wrapper unchanged;
\* the frozen heap (the freezer's state), the mutable heap and the wrappers
\* are left as they were, and freezing the result again gives the same.
C7_FreezeIdentity ==
  [][ last'.op = "freeze" =>
        /\ last'.ok
        /\ ws' = ws
        /\ fheap' = fheap
        /\ heap' = heap
        /\ FrozenValueTyped_freeze(ws'[last'.r], fheap').out = ws[last'.r] ]_vars

C7_Witness ==
  /\ last.op = "freeze"
  /\ last.ok
  /\ ws[last.r].T = "str"
  /\ ~is_int(ws[last.r].v)
  /\ Len(fheap) = 2

\* C8: in a collection pass the tracer is handed exactly the handles of the
\* mutable wrappers, each once and in the order traced, and never a frozen
\* wrapper's; afterwards each mutable wrapper holds the handle the tracer
\* wrote back, which refers to the same object and still downcasts to T, so
\* the debug assertion holds; frozen wrappers are unchanged.
C8_Trace ==
  [][ last'.op = "collect" =>
        LET IsMut(r) == ws[r] # None /\ ~ws[r].frozen
            mut == SelectSeq(last'.order, IsMut)
        IN  /\ last'.calls = [k \in 1..Len(mut) |-> ws[mut[k]].v]
            /\ Len(last'.rets) = Len(mut)
            /\ last'.ok
            /\ \A k \in 1..Len(mut) :
                 LET old == ws[mut[k]]
                     new == ws'[mut[k]]
                 IN  /\ new.v = last'.rets[k]
                     /\ new.T = old.T
                     /\ ~new.frozen
                     /\ TypeOfIn(heap', fheap', new.v) = old.T
                     /\ is_int(old.v) => new.v = old.v
                     /\ ~is_int(old.v) =>
                          HeaderAtIn(heap', fheap', AddrOf(new.v)) = ObjectOf(old.v)
            /\ \A r \in Regs : ~IsMut(r) => ws'[r] = ws[r] ]_vars

C8_Witness ==
  /\ last.op = "collect"
  /\ Len(last.calls) = 1
  /\ last.calls[1] # last.rets[1]
  /\ \A r \in Regs : ws[r] # None
  /\ \E r \in Regs : ws[r].frozen
  /\ \E r \in Regs : ~ws[r].frozen /\ ws[r].v = last.rets[1] /\ ws[r].T = "str"

\* The payload address of the object a handle was made for by the allocator.
OwnPayload(v) ==
  {payload_ptr(FrozenAddr(j)) : j \in {k \in 1..Len(fheap) :
       FrozenValue_new_ptr(FrozenAddr(k), fheap[k].ty = "str") = v}}

\* C9: as_ref on a frozen wrapper returns, in each of its three branches, the
\* wrapper's own payload (the integer itself for an immediate), which is what
\* ValueTyped::as_ref returns on the mutable view; and for every frozen
\* pointer that is neither string nor integer the path without untagging
\* gives the address the masking path gives.
C9_FrozenAsRef ==
  /\ (last.op = "as_ref" /\ ws[last.r].frozen) =>
       LET w == ws[last.r]
           out == last.out
       IN  /\ out = ValueTyped_as_ref(FrozenValueTyped_to_value_typed(w))
           /\ w.T = "int" => out.imm /\ w.v = new_int(out.int)
           /\ w.T # "int" =>
                /\ ~out.imm
                /\ OwnPayload(w.v) = {out.addr}
                /\ PayloadAt(out.addr) = ObjectOf(w.v)
                /\ PayloadAt(out.addr).ty = w.T
  /\ \A fv \in FrozenValues :
       (fv.tag = TAG_STR) <=> (~is_int(fv) /\ ObjectOf(fv).ty = "str")
  /\ \A fv \in FrozenValues :
       (~is_int(fv) /\ ObjectOf(fv).ty # "str") =>
         unpack_ptr_no_int_no_str_unchecked(fv) = unpack_ptr_no_int_unchecked(fv)

C9_Witness ==
  /\ last.op = "as_ref"
  /\ ws[last.r].frozen
  /\ ws[last.r].T = "bigint"
  /\ last.out.addr = payload_ptr(FrozenAddr(2))
  /\ fheap[1].ty = "str"


(***************************************************************************)
(* Properties of the string specialisations.                               *)
(***************************************************************************)
Content(w) == ObjectOf(w.v).val

SameAlloc(a, b) == AddrOf(a.v) = AddrOf(b.v)

View(w) == IF w.frozen THEN FrozenValueTyped_to_value_typed(w) ELSE w

HashAny(w) == IF w.frozen THEN FrozenValueTyped_hash(w) ELSE ValueTyped_hash(w)

CmpAny(a, b) == IF a.frozen THEN FrozenValueTyped_cmp(a, b) ELSE ValueTyped_cmp(a, b)

Min(m, n) == IF m < n THEN m ELSE n

\* Lexicographic order of byte strings: s is a proper prefix of t, or the
\* first byte in which they differ is smaller in s.
LexLess(s, t) ==
  \E k \in 0..Min(Len(s), Len(t)) :
    /\ \A i \in 1..k : s[i] = t[i]
    /\ \/ k = Len(s) /\ k < Len(t)
       \/ k < Len(s) /\ k < Len(t) /\ s[k + 1] < t[k + 1]

LexOrd(s, t) == IF s = t THEN "Equal" ELSE IF LexLess(s, t) THEN "Less" ELSE "Greater"

StrRegs == {r \in Regs : IsStr(r)}

\* C5: in each of the four mutable/frozen combinations a == b holds exactly
\* when the two wrappers reference the same allocation or their contents are
\* byte-for-byte equal; for the same allocation the content comparison is not
\* evaluated; and the result is that of comparing the mutable views.
C5_StrEq ==
  last.op = "eq" =>
    LET a == ws[last.a]
        b == ws[last.b]
    IN  /\ last.out <=> (SameAlloc(a, b) \/ Content(a) = Content(b))
        /\ SameAlloc(a, b) => (last.out /\ ~last.content)
        /\ last.out = ValueTyped_eq(View(a), View(b)).result

C5_Witness ==
  /\ last.op = "eq"
  /\ ws[last.a].frozen
  /\ ~ws[last.b].frozen
  /\ ~SameAlloc(ws[last.a], ws[last.b])
  /\ last.out
  /\ last.content
  /\ Content(ws[last.a]) = <<97, 98>>

\* C6: cmp and partial_cmp of two string wrappers of the same kind are the
\* lexicographic byte order of their contents, whatever their handles are,
\* and a collection pass that relocates the strings does not change it.
C6_StrOrd ==
  [][ /\ last'.op = "cmp" =>
           last'.out = LexOrd(Content(ws[last.a])', Content(ws[last.b])')
      /\ last'.op = "partial_cmp" =>
           last'.out = [some |-> TRUE,
                        ord |-> LexOrd(Content(ws[last.a])', Content(ws[last.b])')]
      /\ last'.op = "collect" =>
           \A ra, rb \in StrRegs :
             ws[ra].frozen = ws[rb].frozen =>
               CmpAny(ws[ra], ws[rb]) = CmpAny(ws[ra], ws[rb])' ]_vars

C6_Witness ==
  /\ last.op = "cmp"
  /\ last.out = "Less"
  /\ ~ws[last.a].frozen
  /\ PtrBits(ws[last.a].v) > PtrBits(ws[last.b].v)
  /\ Content(ws[last.a]) = <<97, 98>>
  /\ Content(ws[last.b]) = <<98>>

\* C10: wrappers that compare equal, by pointer identity or by content, in
\* any mutable/frozen combination, feed the same data to the hasher; the data
\* is determined by the string content, is the same for the mutable view, and
\* is not changed by a collection pass that relocates the string.
C10_HashEq ==
  [][ /\ last'.op = "hash" =>
           /\ \A rb \in Regs :
                (IsStr(rb) /\ EqAny(ws[last.r], ws[rb]).result)' =>
                  HashAny(ws[rb])' = last'.out
           /\ \A rb \in Regs :
                (IsStr(rb) /\ Content(ws[last.r]) = Content(ws[rb]))' =>
                  HashAny(ws[rb])' = last'.out
           /\ last'.out = ValueTyped_hash(View(ws[last.r]))'
      /\ last'.op = "collect" =>
           \A r \in StrRegs : HashAny(ws[r]) = HashAny(ws[r])' ]_vars

C10_Witness ==
  /\ last.op = "hash"
  /\ \A r \in Regs : IsStr(r)
  /\ ws["a"].frozen # ws["b"].frozen
  /\ ~SameAlloc(ws["a"], ws["b"])
  /\ EqAny(ws["a"], ws["b"]).result
  /\ Content(ws["a"]) = <<97, 98>>

====
